---- MODULE Spec2Model ----
(***************************************************************************)
(* Conversation client of the Fashion Assistant chatbot (App component    *)
(* and chatApi).  The state is the component's four useState cells, the   *)
(* position of the checkConnection effect, and the log of POST /chat      *)
(* requests with the state of each awaited promise.                       *)
(*                                                                         *)
(* Text is a sequence of tokens; " " is the whitespace token.  The id of  *)
(* a ChatMessage is kept up to the Date.now() value in it; the timestamp  *)
(* is never read by the logic (only by the rendering) and is left out.    *)
(***************************************************************************)
EXTENDS Naturals, Sequences, FiniteSets, TLC

VARIABLES messages, input, isLoading, isConnected, health, requests, lastEvent

vars == <<messages, input, isLoading, isConnected, health, requests, lastEvent>>

(* Number of sends the user may have accepted in one session. *)
MaxSends == 2

-----------------------------------------------------------------------------
(* Text *)

WS == " "

(* 'I\'m having trouble' *)
TroublePrefix == <<"I'm", WS, "having", WS, "trouble">>

WelcomeText == <<"Hello!", WS, "I'm", WS, "your", WS, "fashion", WS, "assistant.">>

TroubleText == TroublePrefix \o <<WS, "connecting", WS, "to", WS, "the", WS, "fashion", WS, "assistant", WS, "service.">>

GenericErrorText == <<"Sorry,", WS, "I", WS, "encountered", WS, "an", WS, "error">>

(* Values the user types into the input box. *)
UserTexts ==
    { <<>>,
      <<WS, WS>>,
      <<"What goes with navy blue?">>,
      <<WS, "hi", WS>>,
      TroublePrefix \o <<WS, "finding", WS, "shoes">> }

(* Values of response.response returned by POST /chat. *)
Replies ==
    { <<"Try grey or white.">>,
      TroublePrefix \o <<WS, "answering">> }

(* String.prototype.trim: drop leading and trailing whitespace. *)
RECURSIVE TrimStart(_)
TrimStart(s) ==
    IF s # <<>> /\ Head(s) = WS THEN TrimStart(Tail(s)) ELSE s

RECURSIVE TrimEnd(_)
TrimEnd(s) ==
    IF s # <<>> /\ s[Len(s)] = WS THEN TrimEnd(SubSeq(s, 1, Len(s) - 1)) ELSE s

trim(s) == TrimEnd(TrimStart(s))

(* String.prototype.startsWith *)
startsWith(s, p) ==
    /\ Len(s) >= Len(p)
    /\ SubSeq(s, 1, Len(p)) = p

-----------------------------------------------------------------------------
(* Messages *)

(* The user message built from input.trim() instead of input. *)
userMessage_Trimmed(text) == [id |-> "now", role |-> "user", content |-> trim(text)]

userMessage(text) == [id |-> "now", role |-> "user", content |-> text]

(* The reply built with the role of the sender of the request. *)
botMessage_UserRole(reply) == [id |-> "msg-now", role |-> "user", content |-> reply]

botMessage(reply) == [id |-> "msg-now", role |-> "assistant", content |-> reply]

errorMessage == [id |-> "error-now", role |-> "assistant", content |-> GenericErrorText]

welcomeMessage == [id |-> "welcome", role |-> "assistant", content |-> WelcomeText]

troubleMessage == [id |-> "error", role |-> "assistant", content |-> TroubleText]

(* The filter with its predicate dropped: every message is kept. *)
keepInHistory_KeepAll(msg) == TRUE

(* The filter also dropping the generic send-error messages. *)
keepInHistory_DropSendErrors(msg) ==
    /\ msg.role # "assistant" \/ ~startsWith(msg.content, TroublePrefix)
    /\ msg.content # GenericErrorText

(* The predicate of the .filter call that prepares the history. *)
keepInHistory(msg) ==
    msg.role # "assistant" \/ ~startsWith(msg.content, TroublePrefix)

RECURSIVE filterHistory(_)
filterHistory(msgs) ==
    IF msgs = <<>> THEN <<>>
    ELSE IF keepInHistory(Head(msgs))
         THEN <<[role |-> Head(msgs).role, content |-> Head(msgs).content]>>
                  \o filterHistory(Tail(msgs))
         ELSE filterHistory(Tail(msgs))

conversationHistory(msgs) == filterHistory(msgs)

(* The history read from the transcript with the new message in it. *)
historySource_Updated(prev, msg) == Append(prev, msg)

(* The transcript the history is computed from: the messages value of the *)
(* render in which the handler was created, not the updated state.        *)
historySource(prev, msg) == prev

(* The early return without the isLoading test. *)
shouldIgnore_NoLoadingGuard(text, loading) == trim(text) = <<>>

(* The early return testing input instead of input.trim(). *)
shouldIgnore_NoTrim(text, loading) == text = <<>> \/ loading

(* The early return of handleSendMessage. *)
shouldIgnore(text, loading) == trim(text) = <<>> \/ loading

(* setMessages([m]) in checkConnection: the new transcript. *)
seedTranscript(prev, m) == <<m>>

(* checkConnection without its setIsConnected(true). *)
connectedAfterProbe_Never(prev, ok) == prev

(* setIsConnected(true) moved before the await, so that both paths run it. *)
connectedAfterProbe_Always(prev, ok) == TRUE

(* setIsConnected(true) is called on the success path only. *)
connectedAfterProbe(prev, ok) == IF ok THEN TRUE ELSE prev

(* The send completion deriving connectivity from its outcome. *)
connectedAfterSend_FromOutcome(prev, ok) == ok

(* handleSendMessage never calls setIsConnected. *)
connectedAfterSend(prev, ok) == prev

(* The catch of checkConnection calling checkConnection again. *)
healthAfterFailure_Retry == "pending"

(* The catch of checkConnection ends the effect: no retry. *)
healthAfterFailure == "failed"

(* The catch of handleSendMessage calling chatApi.sendMessage again. *)
requestsAfterFailure_Retry(reqs, i) ==
    IF Len(reqs) < MaxSends
    THEN Append([reqs EXCEPT ![i].state = "failed"], [reqs[i] EXCEPT !.state = "pending"])
    ELSE [reqs EXCEPT ![i].state = "failed"]

(* The catch of handleSendMessage: the request is over, nothing is issued. *)
requestsAfterFailure(reqs, i) == [reqs EXCEPT ![i].state = "failed"]

(* finally { setIsLoading(true) } *)
loadingAfterSend_StaysTrue(ok) == TRUE

(* setIsLoading(false) at the end of the try block instead of finally. *)
loadingAfterSend_TryOnly(ok) == ~ok

(* finally { setIsLoading(false) } *)
loadingAfterSend(ok) == FALSE

-----------------------------------------------------------------------------
(* State machine *)

Init ==
    /\ messages = <<>>
    /\ input = <<>>
    /\ isLoading = FALSE
    /\ isConnected = FALSE
    /\ health = "idle"
    /\ requests = <<>>
    /\ lastEvent = "init"

(* The mount effect: checkConnection() runs up to its await. *)
Mount ==
    /\ health = "idle"
    /\ health' = "pending"
    /\ lastEvent' = "mount"
    /\ UNCHANGED <<messages, input, isLoading, isConnected, requests>>

(* chatApi.getHealth() resolved. *)
HealthSucceeds ==
    /\ health = "pending"
    /\ health' = "ok"
    /\ isConnected' = connectedAfterProbe(isConnected, TRUE)
    /\ messages' = seedTranscript(messages, welcomeMessage)
    /\ lastEvent' = "health_ok"
    /\ UNCHANGED <<input, isLoading, requests>>

(* chatApi.getHealth() threw (network error or non-2xx). *)
HealthFails ==
    /\ health = "pending"
    /\ health' = healthAfterFailure
    /\ isConnected' = connectedAfterProbe(isConnected, FALSE)
    /\ messages' = seedTranscript(messages, troubleMessage)
    /\ lastEvent' = "health_fail"
    /\ UNCHANGED <<input, isLoading, requests>>

(* onChange of the input box. *)
OnChange(text) ==
    /\ health # "idle"
    /\ input' = text
    /\ lastEvent' = "change"
    /\ UNCHANGED <<messages, isLoading, isConnected, health, requests>>

(* handleSendMessage up to its await. *)
handleSendMessage ==
    /\ health # "idle"
    /\ lastEvent' = "send"
    /\ IF shouldIgnore(input, isLoading)
       THEN UNCHANGED <<messages, input, isLoading, isConnected, health, requests>>
       ELSE /\ Len(requests) < MaxSends
            /\ messages' = Append(messages, userMessage(input))
            /\ input' = <<>>
            /\ isLoading' = TRUE
            /\ requests' = Append(requests,
                                  [message |-> input,
                                   conversation_history |->
                                       conversationHistory(
                                           historySource(messages, userMessage(input))),
                                   state |-> "pending",
                                   response |-> <<>>])
            /\ UNCHANGED <<isConnected, health>>

(* The awaited chatApi.sendMessage of request i resolved with reply. *)
SendSucceeds(i, reply) ==
    /\ requests[i].state = "pending"
    /\ requests' = [requests EXCEPT ![i].state = "ok", ![i].response = reply]
    /\ messages' = Append(messages, botMessage(reply))
    /\ isLoading' = loadingAfterSend(TRUE)
    /\ isConnected' = connectedAfterSend(isConnected, TRUE)
    /\ lastEvent' = "reply"
    /\ UNCHANGED <<input, health>>

(* The awaited chatApi.sendMessage of request i threw. *)
SendFails(i) ==
    /\ requests[i].state = "pending"
    /\ requests' = requestsAfterFailure(requests, i)
    /\ messages' = Append(messages, errorMessage)
    /\ isLoading' = loadingAfterSend(FALSE)
    /\ isConnected' = connectedAfterSend(isConnected, FALSE)
    /\ lastEvent' = "error"
    /\ UNCHANGED <<input, health>>

Next ==
    \/ Mount
    \/ HealthSucceeds
    \/ HealthFails
    \/ \E text \in UserTexts : OnChange(text)
    \/ handleSendMessage
    \/ \E i \in DOMAIN requests : \E reply \in Replies : SendSucceeds(i, reply)
    \/ \E i \in DOMAIN requests : SendFails(i)

Spec == Init /\ [][Next]_vars

(* Every issued request eventually resolves; so does the health probe. *)
FairSpec ==
    /\ Spec
    /\ WF_vars(\E i \in DOMAIN requests :
                  SendFails(i) \/ \E reply \in Replies : SendSucceeds(i, reply))
    /\ WF_vars(HealthSucceeds \/ HealthFails)

-----------------------------------------------------------------------------
(* Helpers of the properties *)

IsPrefix(s, t) == Len(s) <= Len(t) /\ SubSeq(t, 1, Len(s)) = s

Outstanding == {i \in DOMAIN requests : requests[i].state = "pending"}

Resolved == {i \in DOMAIN requests : requests[i].state # "pending"}

CountRole(msgs, r) == Cardinality({k \in DOMAIN msgs : msgs[k].role = r})

TypeOK ==
    /\ input \in UserTexts
    /\ isLoading \in BOOLEAN
    /\ isConnected \in BOOLEAN
    /\ health \in {"idle", "pending", "ok", "failed"}
    /\ Len(requests) <= MaxSends

-----------------------------------------------------------------------------
(* C1: the transcript is append-only: in every step (accepted send, send   *)
(* completion, health probe completion, in any interleaving) the          *)
(* transcript before the step is a prefix of the transcript after it.     *)
C1_AppendOnly == [][IsPrefix(messages, messages')]_vars

(* C2: every accepted send has exactly one user message in the transcript *)
(* and, once its request has resolved, exactly one assistant message.     *)
(* Besides these the transcript holds only the one message the resolved   *)
(* health probe seeded.                                                    *)
C2_ExactlyOnePerSend ==
    /\ CountRole(messages, "user") = Len(requests)
    /\ CountRole(messages, "assistant")
          = Cardinality(Resolved) + (IF health \in {"ok", "failed"} THEN 1 ELSE 0)

(* C3: at most one chat request is outstanding at any time, and an        *)
(* invocation of handleSendMessage while the in-flight flag is set issues *)
(* no request and appends no user message; the completion of a request    *)
(* issues no request either (nothing was queued).                         *)
C3_OneInFlight ==
    /\ [](Cardinality(Outstanding) <= 1)
    /\ [][(lastEvent' = "send" /\ isLoading)
             => (requests' = requests /\ messages' = messages)]_vars
    /\ [][(lastEvent' \in {"reply", "error"})
             => (Len(requests') = Len(requests)
                 /\ \A i \in DOMAIN requests :
                       requests'[i].message = requests[i].message)]_vars

(* A non-blank text has just been submitted while a request was          *)
(* outstanding, and was dropped (an accepted send clears the input).      *)
C3_Witness ==
    /\ lastEvent = "send"
    /\ isLoading
    /\ trim(input) # <<>>
    /\ Len(requests) = 1
    /\ Cardinality(Outstanding) = 1

(* C4: an invocation of handleSendMessage with empty or whitespace-only   *)
(* text, or while a send is in flight, changes neither the transcript,    *)
(* the in-flight flag, the input, the connectivity state nor the requests.*)
C4_IgnoredSendIsNoOp ==
    [][(lastEvent' = "send" /\ (trim(input) = <<>> \/ isLoading))
          => UNCHANGED <<messages, isLoading, input, isConnected, requests>>]_vars

(* A whitespace-only text was submitted with no send in flight. *)
C4_Witness ==
    /\ lastEvent = "send"
    /\ ~isLoading
    /\ input # <<>>
    /\ trim(input) = <<>>

(* C5: no element of the conversation_history of any issued request has   *)
(* content beginning with the connectivity-error prefix, whatever its     *)
(* role.                                                                   *)
C5_NoPrefixInHistory ==
    \A i \in DOMAIN requests :
        \A k \in DOMAIN requests[i].conversation_history :
            ~startsWith(requests[i].conversation_history[k].content, TroublePrefix)

(* C5 (amended): no assistant element of the conversation_history of any  *)
(* issued request has content beginning with the connectivity-error       *)
(* prefix.                                                                 *)
C5_NoAssistantPrefixInHistory ==
    \A i \in DOMAIN requests :
        \A k \in DOMAIN requests[i].conversation_history :
            requests[i].conversation_history[k].role = "assistant"
                => ~startsWith(requests[i].conversation_history[k].content, TroublePrefix)

(* The second request was issued from a transcript that starts with the   *)
(* connectivity-error notice; its history is the two messages after it.   *)
C5_Witness ==
    /\ health = "failed"
    /\ Len(requests) = 2
    /\ requests[2].state = "pending"
    /\ Len(messages) = 4
    /\ messages[1] = troubleMessage
    /\ requests[2].conversation_history
          = <<[role |-> messages[2].role, content |-> messages[2].content],
              [role |-> messages[3].role, content |-> messages[3].content]>>

(* C6: if every issued request eventually resolves, every state with the  *)
(* in-flight flag set is followed by a state with the flag clear.         *)
C6_FlagEventuallyCleared == isLoading ~> ~isLoading

(* A request threw and the flag is clear. *)
C6_Witness ==
    /\ lastEvent = "error"
    /\ ~isLoading
    /\ \E i \in DOMAIN requests : requests[i].state = "failed"

(* C7: after a send failed the flag is clear and the transcript ends with *)
(* the user message of that send followed by the generic error message.   *)
C7_FailedSend ==
    lastEvent = "error" =>
        /\ ~isLoading
        /\ Len(messages) >= 2
        /\ messages[Len(messages) - 1] = userMessage(requests[Len(requests)].message)
        /\ messages[Len(messages)] = errorMessage

(* C8: after a send of text t succeeded with response r the transcript    *)
(* ends with the user message t followed directly by the assistant        *)
(* message r.                                                              *)
C8_SuccessfulSend ==
    lastEvent = "reply" =>
        /\ Len(messages) >= 2
        /\ messages[Len(messages) - 1] = userMessage(requests[Len(requests)].message)
        /\ messages[Len(messages)].role = "assistant"
        /\ messages[Len(messages)].content = requests[Len(requests)].response

(* C9: once the health probe has succeeded and while no send has been     *)
(* accepted, connectivity is reachable and the transcript is exactly the  *)
(* welcome message.                                                        *)
C9_ProbeSuccess ==
    (health = "ok" /\ requests = <<>>)
        => (isConnected /\ messages = <<welcomeMessage>>)

(* The probe has just succeeded, before any send. *)
C9_Witness ==
    /\ health = "ok"
    /\ lastEvent = "health_ok"
    /\ requests = <<>>

(* C10: when the health probe fails connectivity is unreachable and the   *)
(* transcript is exactly the one connectivity-error notice; from then on  *)
(* the transcript holds that notice once, and a non-blank send with no    *)
(* send in flight is accepted and completed as usual.                     *)
C10_ProbeFailure ==
    /\ [](lastEvent = "health_fail" => messages = <<troubleMessage>>)
    /\ [](health = "failed" =>
            /\ ~isConnected
            /\ Cardinality({k \in DOMAIN messages : messages[k] = troubleMessage}) = 1)
    /\ [][(health = "failed" /\ lastEvent' = "send" /\ trim(input) # <<>> /\ ~isLoading)
             => /\ messages' = Append(messages, userMessage(input))
                /\ isLoading'
                /\ Len(requests') = Len(requests) + 1
                /\ requests'[Len(requests')].message = input
                /\ requests'[Len(requests')].state = "pending"]_vars
    /\ [][(health = "failed" /\ lastEvent' \in {"reply", "error"})
             => /\ Len(messages') = Len(messages) + 1
                /\ IsPrefix(messages, messages')
                /\ ~isLoading']_vars

(* After a failed probe a send was accepted and answered. *)
C10_Witness ==
    /\ health = "failed"
    /\ ~isConnected
    /\ lastEvent = "reply"
    /\ Len(messages) = 3
    /\ messages[1] = troubleMessage
    /\ messages[2].role = "user"

-----------------------------------------------------------------------------
(* Helpers of the properties on the request *)

(* The step is an accepted send: handleSendMessage ran past its guard. *)
AcceptedSend == lastEvent' = "send" /\ trim(input) # <<>> /\ ~isLoading

(* The request issued by the step. *)
IssuedRequest == requests'[Len(requests')]

RoleAndContent(msgs) ==
    [k \in 1..Len(msgs) |-> [role |-> msgs[k].role, content |-> msgs[k].content]]

(* The notice checkConnection puts in the transcript when the probe fails. *)
NotConnectivityNotice(m) == m.id # "error"

NotPrefixedAssistant(m) ==
    ~(m.role = "assistant" /\ startsWith(m.content, TroublePrefix))

(* C11: the conversation_history of an accepted send is the transcript    *)
(* without the connectivity-error notices, every other message present    *)
(* once, in transcript order, reduced to role and content.                *)
C11_HistoryWithoutNotices ==
    [][AcceptedSend =>
          IssuedRequest.conversation_history
              = RoleAndContent(SelectSeq(messages, NotConnectivityNotice))]_vars

(* C11 (amended): the conversation_history of an accepted send is the     *)
(* transcript without the assistant messages whose content begins with    *)
(* the connectivity-error prefix, every other message present once, in    *)
(* transcript order, reduced to role and content.                         *)
C11_HistoryWithoutPrefixedAssistant ==
    [][AcceptedSend =>
          IssuedRequest.conversation_history
              = RoleAndContent(SelectSeq(messages, NotPrefixedAssistant))]_vars

(* The second request was issued after a failed probe and a failed send:  *)
(* its history is the first user message and the generic error message.   *)
C11_Witness ==
    /\ lastEvent = "send"
    /\ Len(requests) = 2
    /\ requests[1].state = "failed"
    /\ requests[2].state = "pending"
    /\ Len(messages) = 4
    /\ messages[1] = troubleMessage
    /\ messages[3] = errorMessage
    /\ Len(requests[2].conversation_history) = 2
    /\ requests[2].conversation_history[2].content = GenericErrorText

(* C12: a chat request is issued exactly by an accepted send and by no    *)
(* other step (a failed request is not issued again); after a failed send *)
(* the in-flight flag is clear, after a failed health probe it becomes    *)
(* clear, and with the flag clear a non-blank send is accepted.           *)
C12_NoRetryNotFatal ==
    /\ [][Len(requests') = Len(requests) + (IF AcceptedSend THEN 1 ELSE 0)]_vars
    /\ [][lastEvent' = "error" => (Outstanding' \subseteq Outstanding)]_vars
    /\ [](lastEvent = "error" => ~isLoading)
    /\ (health = "failed" ~> ~isLoading)

(* A send failed and the next send was accepted. *)
C12_Witness ==
    /\ lastEvent = "send"
    /\ Len(requests) = 2
    /\ requests[1].state = "failed"
    /\ requests[2].state = "pending"
    /\ isLoading

(* C13: the health probe is issued once: it is started only from the      *)
(* not-yet-started position, it resolves only from the pending position,  *)
(* and once resolved its position never changes, whatever fails or is     *)
(* sent afterwards; the transcript is seeded only when it resolves.       *)
C13_ProbeOnce ==
    /\ [][lastEvent' = "mount" => (health = "idle" /\ health' = "pending")]_vars
    /\ [][health # "idle" => health' # "idle"]_vars
    /\ [][(health \in {"ok", "failed"}) => (health' = health)]_vars
    /\ [][lastEvent' \in {"health_ok", "health_fail"}
             => (health = "pending" /\ health' \in {"ok", "failed"})]_vars
    /\ [][(Len(messages') = 1 /\ messages'[1].id \in {"welcome", "error"}
              /\ messages' # messages)
             => (health = "pending" /\ health' \in {"ok", "failed"})]_vars

(* The probe failed and a send was accepted and completed after it. *)
C13_Witness ==
    /\ health = "failed"
    /\ Len(messages) = 3
    /\ messages[1] = troubleMessage
    /\ Len(requests) = 1
    /\ Outstanding = {}

(* C14: accepting a send and completing a send leave connectivity         *)
(* unchanged: after a failed probe it is unreachable and after a          *)
(* successful probe it is reachable, whatever the sends do.               *)
C14_ConnectivityFromProbeOnly ==
    /\ [][lastEvent' \in {"send", "reply", "error", "change"}
             => (isConnected' = isConnected)]_vars
    /\ [](isConnected <=> health = "ok")

(* After a successful probe a send failed; after a failed probe one       *)
(* succeeded.                                                              *)
C14_Witness ==
    \/ health = "ok" /\ isConnected /\ lastEvent = "error"
    \/ health = "failed" /\ ~isConnected /\ lastEvent = "reply"

(* C15: the in-flight flag is set exactly when one chat request is        *)
(* outstanding; it is clear initially and the health probe's start and    *)
(* completion do not change it.                                           *)
C15_FlagIffOneOutstanding ==
    /\ [](isLoading <=> Cardinality(Outstanding) = 1)
    /\ [](lastEvent = "init" => ~isLoading)
    /\ [][lastEvent' \in {"mount", "health_ok", "health_fail"}
             => (isLoading' = isLoading)]_vars

(* The probe resolved while a request was outstanding. *)
C15_Witness ==
    /\ lastEvent \in {"health_ok", "health_fail"}
    /\ isLoading
    /\ Cardinality(Outstanding) = 1

CountEqual(seq, x) == Cardinality({k \in DOMAIN seq : seq[k] = x})

(* C16: the conversation_history of an accepted send comes from the       *)
(* transcript before the send's user message was appended: it holds that  *)
(* user message as often as the earlier transcript did, and the text      *)
(* travels in the message field.                                          *)
C16_HistoryExcludesOwnMessage ==
    [][AcceptedSend =>
          /\ IssuedRequest.message = input
          /\ Len(IssuedRequest.conversation_history) <= Len(messages)
          /\ CountEqual(IssuedRequest.conversation_history,
                        [role |-> "user", content |-> input])
                = CountEqual(RoleAndContent(messages),
                             [role |-> "user", content |-> input])]_vars

(* The same text was sent twice: the second history holds it once. *)
C16_Witness ==
    /\ lastEvent = "send"
    /\ Len(requests) = 2
    /\ requests[2].state = "pending"
    /\ requests[2].message = requests[1].message
    /\ CountEqual(requests[2].conversation_history,
                  [role |-> "user", content |-> requests[2].message]) = 1

(* C17: the transcript never holds two consecutive user messages, and a   *)
(* user message is appended only with every earlier request resolved.     *)
C17_NoConsecutiveUsers ==
    /\ [](\A k \in 1..(Len(messages) - 1) :
             ~(messages[k].role = "user" /\ messages[k + 1].role = "user"))
    /\ [][CountRole(messages', "user") > CountRole(messages, "user")
             => (Outstanding = {})]_vars

(* Two sends were accepted and both user messages are in the transcript. *)
C17_Witness ==
    /\ CountRole(messages, "user") = 2
    /\ Len(requests) = 2

(* C18: on an accepted send the appended user message and the request's   *)
(* message field both hold the input text as typed, untrimmed, and the    *)
(* input becomes the empty string.                                        *)
C18_TextAsTyped ==
    [][AcceptedSend =>
          /\ messages'[Len(messages')].role = "user"
          /\ messages'[Len(messages')].content = input
          /\ IssuedRequest.message = input
          /\ input' = <<>>]_vars

(* A text with surrounding whitespace has just been sent. *)
C18_Witness ==
    /\ lastEvent = "send"
    /\ isLoading
    /\ input = <<>>
    /\ requests[Len(requests)].message # trim(requests[Len(requests)].message)
    /\ messages[Len(messages)].content = requests[Len(requests)].message

====
